---- MODULE Spec2Model ----
(***************************************************************************)
(* Model of package set (src/set.go, lines 96-280): the Interface          *)
(* contract, the reflective constructor newSet, the four set-algebra       *)
(* functions and the two map-backed implementations StringSet and IntSet,  *)
(* together with the producer goroutine behind every Values() channel.     *)
(*                                                                         *)
(* An interface{} value is a pair <<dynamic type, payload>>; a value of    *)
(* type Interface is a record holding its dynamic type and, as Go maps and *)
(* slices are reference types, a reference into the heap.                  *)
(***************************************************************************)
EXTENDS Integers, Sequences, FiniteSets

\* Payloads 1..MaxElem per element type (the i-th string, the integer i).
MaxElem == 2
\* Capacity hints 0..MaxCap tried on direct calls of newSet.
MaxCap == 1

VARIABLES
    typ,        \* typ[i]: the concrete type the caller made its set i with
    heap,       \* heap[ref]: the storage behind a reference
    pc,         \* position of the calling goroutine
    op,         \* the function being (or last) called
    s, t,       \* the function's parameters s and t (Intersection swaps them)
    r,          \* the local r / the value returned to the caller
    chans,      \* the channels returned by Values() during the current call
    nContains,  \* number of Contains calls made by the current call
    args,       \* the operands as passed by the caller (history)
    lastIns,    \* <<x>> after the caller's Insert(x) on the returned value
    panicMsg    \* the panic (or fatal error) that ended the program

vars == <<typ, heap, pc, op, s, t, r, chans, nContains, args, lastIns, panicMsg>>

----------------------------------------------------------------------------
(* Values and types *)

StringElems == {<<"string", i>> : i \in 1..MaxElem}
IntElems == {<<"int", i>> : i \in 1..MaxElem}
Elems == StringElems \cup IntElems

\* The types implementing Interface in the package.
SetTypes == {"StringSet", "IntSet"}
\* Further implementations a user may write, one per reflect.Kind of
\* interest: a slice type, a struct type wrapping a map, a pointer type.
UserTypes == {"SliceSet", "StructSet", "PtrSet"}

\* reflect.Type.Kind()
Kind(T) ==
    CASE T \in SetTypes -> "map"
      [] T = "SliceSet" -> "slice"
      [] T = "StructSet" -> "struct"
      [] OTHER -> "ptr"

\* The key type of the underlying map: x.(string) or x.(int) must succeed.
KeyType(T) == IF T = "IntSet" THEN "int" ELSE "string"

Nil == 0
Fresh == 3
Refs == 1..Fresh

EmptyCell == [keys |-> {}, cells |-> <<>>]

NoVal == [type |-> "nil", ref |-> Nil, len |-> 0, cap |-> 0]
\* The caller's set i: a map value, i.e. a reference to its storage.
Obj(i) == [type |-> typ[i], ref |-> i, len |-> 0, cap |-> 0]
\* The zero value of a user type (only its type matters to newSet).
ZeroOf(T) == [type |-> T, ref |-> Nil, len |-> 0, cap |-> 0]

Keys(h, x) == IF x.ref = Nil THEN {} ELSE h[x.ref].keys

----------------------------------------------------------------------------
(* Methods of the implementations, dispatched on the dynamic type *)

\* The methods of the user types. A slice type's methods have value
\* receivers (a pointer receiver would make the type a pointer kind): Len and
\* Contains see the receiver's own header, Insert appends to a copy of it, so
\* that the element lands in the backing array when there is room while the
\* caller's header keeps its length. A struct type wrapping a map reads a
\* nil map as empty and panics on writing to it.
UserLen(h, x) ==
    IF x.type = "SliceSet" THEN x.len ELSE Cardinality(Keys(h, x))

UserContains(h, x, e) ==
    IF x.type = "SliceSet"
    THEN \E i \in 1..x.len : h[x.ref].cells[i] = e
    ELSE e \in Keys(h, x)

UserInsertPanic(x) ==
    IF x.type = "StructSet" /\ x.ref = Nil
    THEN "assignment to entry in nil map"
    ELSE ""

UserInsert(h, x, e) ==
    CASE x.type = "SliceSet" /\ x.ref # Nil /\ x.len < x.cap ->
            [h EXCEPT ![x.ref].cells[x.len + 1] = e]
      [] x.type = "StructSet" /\ x.ref # Nil ->
            [h EXCEPT ![x.ref].keys = @ \cup {e}]
      [] OTHER -> h

UserRemove(h, x, e) ==
    IF x.type = "StructSet" /\ x.ref # Nil
    THEN [h EXCEPT ![x.ref].keys = @ \ {e}]
    ELSE h

\* StringSet.Len / IntSet.Len: len(s)
SetLen(h, x) ==
    IF x.type \in SetTypes THEN Cardinality(Keys(h, x)) ELSE UserLen(h, x)

\* The type assertion x.(string) / x.(int) at the head of every method.
AssertOK(x, e) == e[1] = KeyType(x.type)

\* StringSet.Contains / IntSet.Contains: _, ok := s[x.(T)]
Contains(h, x, e) ==
    IF x.type \in SetTypes THEN e \in Keys(h, x) ELSE UserContains(h, x, e)

\* The panic raised by Insert, "" when it returns normally.
InsertPanic(x, e) ==
    CASE ~AssertOK(x, e) -> "interface conversion"
      [] x.type \notin SetTypes -> UserInsertPanic(x)
      [] OTHER -> ""

\* StringSet.Insert / IntSet.Insert: s[x.(T)] = true
Insert(h, x, e) ==
    IF x.type \in SetTypes
    THEN [h EXCEPT ![x.ref].keys = @ \cup {e}]
    ELSE UserInsert(h, x, e)

\* StringSet.Remove / IntSet.Remove: delete(s, x.(T))
Remove(h, x, e) ==
    IF x.type \in SetTypes
    THEN [h EXCEPT ![x.ref].keys = @ \ {e}]
    ELSE UserRemove(h, x, e)

\* The panic raised by Contains, "" when it returns normally.
ContainsPanic(x, e) == IF AssertOK(x, e) THEN "" ELSE "interface conversion"

----------------------------------------------------------------------------
(* Values(): the channel and its producer goroutine *)

\* StringSet.Values / IntSet.Values: c := make(chan interface{}); go ...; return c.
\* obj is the map the goroutine ranges over, sent the keys its range has
\* visited, pend the value of a blocked send c <- v, recvd what the consumer
\* has received so far; snap records the keys at call time, raced a data
\* race on the map and extra a send made since.
Values(h, x) ==
    [obj |-> x.ref, snap |-> Keys(h, x), sent |-> {}, pend |-> <<>>,
     closed |-> FALSE, raced |-> FALSE, extra |-> FALSE, recvd |-> <<>>]

\* A write to the storage behind ref while a producer still ranges over it
\* is the data race the contract forbids.
MarkRace(chs, ref) ==
    [i \in DOMAIN chs |->
        IF chs[i].obj = ref /\ ~chs[i].closed
        THEN [chs[i] EXCEPT !.raced = TRUE]
        ELSE chs[i]]

\* The consumer's receive of the pending value of channel i.
Took(chs, i) ==
    [chs EXCEPT ![i].pend = <<>>, ![i].recvd = Append(@, chs[i].pend[1])]

\* Mutant of RangeDone: the loop is left after its first iteration.
RangeDone_early(c) == c.closed \/ c.recvd # <<>>

\* "for v := range c" ends when the channel is closed.
RangeDone(c) == c.closed /\ c.pend = <<>>

\* What the next iteration of "for v := range s" may yield: a key not yet
\* visited. After a data race the behaviour is undefined: the producer may
\* close at once, abort the program, or send any value of the key type (it
\* is followed through one such send).
NextKeys(c) ==
    IF c.raced
    THEN IF ~c.extra
         THEN {e \in Elems : e[1] = KeyType(typ[c.obj])}
         ELSE {}
    ELSE heap[c.obj].keys \ c.sent

\* The goroutine's send c <- v (it blocks until the consumer receives).
ValuesSend(i) ==
    /\ pc # "panicked"
    /\ i \in DOMAIN chans
    /\ ~chans[i].closed /\ chans[i].pend = <<>>
    /\ \E k \in NextKeys(chans[i]) :
          chans' = [chans EXCEPT ![i].pend = <<k>>, ![i].sent = @ \cup {k},
                                 ![i].extra = chans[i].raced]
    /\ UNCHANGED <<typ, heap, pc, op, s, t, r, nContains, args, lastIns, panicMsg>>

\* Mutant of ValuesClose: close(c) runs before the range loop has ended.
ValuesClose_early(i) ==
    /\ pc # "panicked"
    /\ i \in DOMAIN chans
    /\ ~chans[i].closed /\ chans[i].pend = <<>>
    /\ chans' = [chans EXCEPT ![i].closed = TRUE]
    /\ UNCHANGED <<typ, heap, pc, op, s, t, r, nContains, args, lastIns, panicMsg>>

\* The goroutine's close(c) after its range loop has ended.
ValuesClose(i) ==
    /\ pc # "panicked"
    /\ i \in DOMAIN chans
    /\ ~chans[i].closed /\ chans[i].pend = <<>>
    /\ chans[i].raced \/ NextKeys(chans[i]) = {}
    /\ chans' = [chans EXCEPT ![i].closed = TRUE]
    /\ UNCHANGED <<typ, heap, pc, op, s, t, r, nContains, args, lastIns, panicMsg>>

\* After a data race the runtime may also abort the program.
ValuesFatal(i) ==
    /\ pc # "panicked"
    /\ i \in DOMAIN chans
    /\ ~chans[i].closed /\ chans[i].raced
    /\ pc' = "panicked"
    /\ panicMsg' = "concurrent map iteration and map write"
    /\ UNCHANGED <<typ, heap, op, s, t, r, chans, nContains, args, lastIns>>

----------------------------------------------------------------------------
(* newSet and the four functions *)

\* Mutant of newSet: the result is the operand s itself, not a new value.
newSet_alias(x, y, capacity) ==
    IF x.type # y.type
    THEN [panic |-> "Set types do not match", r |-> NoVal]
    ELSE IF Kind(x.type) \in {"map", "slice", "struct"}
         THEN [panic |-> "", r |-> x]
         ELSE [panic |-> "Unsupported set type", r |-> NoVal]

\* Mutant of newSet: the types of s and t are not compared.
newSet_nocheck(x, y, capacity) ==
    CASE Kind(x.type) = "map" ->
            [panic |-> "",
             r |-> [type |-> x.type, ref |-> Fresh, len |-> 0, cap |-> 0]]
      [] Kind(x.type) = "slice" ->
            [panic |-> "",
             r |-> [type |-> x.type, ref |-> Fresh, len |-> 0, cap |-> capacity]]
      [] Kind(x.type) = "struct" ->
            [panic |-> "",
             r |-> [type |-> x.type, ref |-> Nil, len |-> 0, cap |-> 0]]
      [] OTHER ->
            [panic |-> "Unsupported set type", r |-> NoVal]

\* newSet(s, t, capacity): the panic ("" when none) and the new value r.
\* reflect.MakeMap gives a reference to fresh, empty storage; MakeSlice a
\* header of length 0 and the given capacity over a fresh array; Zero the
\* zero value of the struct type, whose fields are all nil.
newSet(x, y, capacity) ==
    IF x.type # y.type
    THEN [panic |-> "Set types do not match", r |-> NoVal]
    ELSE CASE Kind(x.type) = "map" ->
                [panic |-> "",
                 r |-> [type |-> x.type, ref |-> Fresh, len |-> 0, cap |-> 0]]
           [] Kind(x.type) = "slice" ->
                [panic |-> "",
                 r |-> [type |-> x.type, ref |-> Fresh, len |-> 0, cap |-> capacity]]
           [] Kind(x.type) = "struct" ->
                [panic |-> "",
                 r |-> [type |-> x.type, ref |-> Nil, len |-> 0, cap |-> 0]]
           [] OTHER ->
                [panic |-> "Unsupported set type", r |-> NoVal]

\* The storage reflect.MakeMap / reflect.MakeSlice allocates for the value v.
Alloc(h, v) ==
    CASE Kind(v.type) = "map" -> [h EXCEPT ![Fresh] = EmptyCell]
      [] Kind(v.type) = "slice" ->
            [h EXCEPT ![Fresh] =
                [keys |-> {}, cells |-> [i \in 1..v.cap |-> <<"string", 0>>]]]
      [] OTHER -> h

Panic(msg) ==
    /\ pc' = "panicked"
    /\ panicMsg' = msg

\* Entry of a function called with the operands x and y: the first
\* statement r := newSet(s, t, capacity), which either panics or leaves the
\* function at its next statement with the parameters bound to (ps, pt).
Enter(name, x, y, capacity, ps, pt, next) ==
    LET n == newSet(x, y, capacity) IN
    /\ pc = "idle"
    /\ op' = name
    /\ args' = <<x, y>>
    /\ s' = ps
    /\ t' = pt
    /\ nContains' = 0
    /\ chans' = <<>>
    /\ lastIns' = <<>>
    /\ r' = n.r
    /\ IF n.panic # ""
       THEN Panic(n.panic) /\ heap' = heap
       ELSE pc' = next /\ heap' = Alloc(heap, n.r) /\ panicMsg' = panicMsg
    /\ UNCHANGED typ

\* "xvals := x.Values()" at position here.
Open(here, x, next) ==
    /\ pc = here
    /\ chans' = Append(chans, Values(heap, x))
    /\ pc' = next
    /\ UNCHANGED <<typ, heap, op, s, t, r, nContains, args, lastIns, panicMsg>>

\* One iteration of "for v := range c { if cond(v) { r.Insert(v) } }" over
\* channel i, where the condition calls probe.Contains(v) when probed is TRUE
\* and the element is inserted when the condition equals want.
Iterate(here, i, probed, probe, want) ==
    /\ pc = here
    /\ chans[i].pend # <<>>
    /\ LET v == chans[i].pend[1]
           cp == IF probed THEN ContainsPanic(probe, v) ELSE ""
           cond == IF probed THEN Contains(heap, probe, v) = want ELSE TRUE
           ip == IF cond THEN InsertPanic(r, v) ELSE ""
       IN /\ nContains' = IF probed THEN nContains + 1 ELSE nContains
          /\ IF cp # "" \/ ip # ""
             THEN /\ Panic(IF cp # "" THEN cp ELSE ip)
                  /\ chans' = Took(chans, i)
                  /\ heap' = heap
             ELSE /\ pc' = pc
                  /\ panicMsg' = panicMsg
                  /\ heap' = IF cond THEN Insert(heap, r, v) ELSE heap
                  /\ chans' = IF cond THEN MarkRace(Took(chans, i), r.ref)
                                      ELSE Took(chans, i)
    /\ UNCHANGED <<typ, op, s, t, r, args, lastIns>>

\* The range loop over channel i ends: the function goes on at next.
EndRange(here, i, next) ==
    /\ pc = here
    /\ RangeDone(chans[i])
    /\ pc' = next
    /\ UNCHANGED <<typ, heap, op, s, t, r, chans, nContains, args, lastIns, panicMsg>>

\* Union, line 163
Union(i, j) ==
    Enter("Union", Obj(i), Obj(j),
          SetLen(heap, Obj(i)) + SetLen(heap, Obj(j)), Obj(i), Obj(j), "Union164")
\* Union, line 164
UnionValuesS == Open("Union164", s, "Union165")
\* Union, lines 165-167
UnionRangeS ==
    \/ Iterate("Union165", 1, FALSE, t, TRUE)
    \/ EndRange("Union165", 1, "Union168")
\* Mutant of UnionValuesT: tvals := s.Values()
UnionValuesT_s == Open("Union168", s, "Union169")
\* Union, line 168
UnionValuesT == Open("Union168", t, "Union169")
\* Union, lines 169-172
UnionRangeT ==
    \/ Iterate("Union169", 2, FALSE, s, TRUE)
    \/ EndRange("Union169", 2, "returned")

\* "if s.Len() < t.Len() { t, s = s, t }"
Swap(h, x, y) == SetLen(h, x) < SetLen(h, y)

\* Intersection, lines 177-180
Intersection(i, j) ==
    Enter("Intersection", Obj(i), Obj(j), 0,
          IF Swap(heap, Obj(i), Obj(j)) THEN Obj(j) ELSE Obj(i),
          IF Swap(heap, Obj(i), Obj(j)) THEN Obj(i) ELSE Obj(j),
          "Intersection181")
\* Intersection, line 181
IntersectionValuesS == Open("Intersection181", s, "Intersection182")
\* Mutant of IntersectionRangeS: if !t.Contains(v)
IntersectionRangeS_neg ==
    \/ Iterate("Intersection182", 1, TRUE, t, FALSE)
    \/ EndRange("Intersection182", 1, "returned")
\* Intersection, lines 182-187
IntersectionRangeS ==
    \/ Iterate("Intersection182", 1, TRUE, t, TRUE)
    \/ EndRange("Intersection182", 1, "returned")

\* Difference, line 192
Difference(i, j) ==
    Enter("Difference", Obj(i), Obj(j), 0, Obj(i), Obj(j), "Difference193")
\* Difference, line 193
DifferenceValuesS == Open("Difference193", s, "Difference194")
\* Mutant of DifferenceRangeS: if !s.Contains(v)
DifferenceRangeS_s ==
    \/ Iterate("Difference194", 1, TRUE, s, FALSE)
    \/ EndRange("Difference194", 1, "returned")
\* Difference, lines 194-199
DifferenceRangeS ==
    \/ Iterate("Difference194", 1, TRUE, t, FALSE)
    \/ EndRange("Difference194", 1, "returned")

\* SymmetricDifference, line 204
SymmetricDifference(i, j) ==
    Enter("SymmetricDifference", Obj(i), Obj(j), 0, Obj(i), Obj(j),
          "SymmetricDifference205")
\* SymmetricDifference, line 205
SymmetricDifferenceValuesS ==
    Open("SymmetricDifference205", s, "SymmetricDifference206")
\* SymmetricDifference, lines 206-210
SymmetricDifferenceRangeS ==
    \/ Iterate("SymmetricDifference206", 1, TRUE, t, FALSE)
    \/ EndRange("SymmetricDifference206", 1, "SymmetricDifference211")
\* SymmetricDifference, line 211
SymmetricDifferenceValuesT ==
    Open("SymmetricDifference211", t, "SymmetricDifference212")
\* Mutant of SymmetricDifferenceRangeT: if !t.Contains(v)
SymmetricDifferenceRangeT_t ==
    \/ Iterate("SymmetricDifference212", 2, TRUE, t, FALSE)
    \/ EndRange("SymmetricDifference212", 2, "returned")
\* SymmetricDifference, lines 212-217
SymmetricDifferenceRangeT ==
    \/ Iterate("SymmetricDifference212", 2, TRUE, s, FALSE)
    \/ EndRange("SymmetricDifference212", 2, "returned")

----------------------------------------------------------------------------
(* The calling program *)

Operands == {Obj(1), Obj(2)}

\* A direct call r := newSet(x, y, capacity), with values of any type
\* implementing Interface.
NewSetCall(x, y, capacity) ==
    Enter("newSet", x, y, capacity, x, y, "returned")

\* The function has returned: its frame (s, t, the channels) is gone and the
\* caller holds the result.
Resume ==
    /\ pc = "returned"
    /\ pc' = "held"
    /\ op' = ""
    /\ args' = <<NoVal, NoVal>>
    /\ s' = NoVal
    /\ t' = NoVal
    /\ chans' = <<>>
    /\ nContains' = 0
    /\ UNCHANGED <<typ, heap, r, lastIns, panicMsg>>

\* The caller drops the result.
Discard ==
    /\ pc = "held"
    /\ pc' = "idle"
    /\ r' = NoVal
    /\ lastIns' = <<>>
    /\ heap' = [heap EXCEPT ![Fresh] = EmptyCell]
    /\ UNCHANGED <<typ, op, s, t, chans, nContains, args, panicMsg>>

\* x.Insert(e) by the caller; the caller may run it inside its own range
\* loop over x.Values(), which the contract forbids.
CallInsert(x, e) ==
    /\ IF InsertPanic(x, e) # ""
       THEN Panic(InsertPanic(x, e)) /\ heap' = heap /\ chans' = chans
       ELSE /\ heap' = Insert(heap, x, e)
            /\ chans' = MarkRace(chans, x.ref)
            /\ UNCHANGED <<pc, panicMsg>>
    /\ UNCHANGED <<typ, op, s, t, r, nContains, args>>

\* x.Remove(e) by the caller.
CallRemove(x, e) ==
    /\ IF ~AssertOK(x, e)
       THEN Panic("interface conversion") /\ heap' = heap /\ chans' = chans
       ELSE /\ heap' = Remove(heap, x, e)
            /\ chans' = MarkRace(chans, x.ref)
            /\ UNCHANGED <<pc, panicMsg>>
    /\ UNCHANGED <<typ, op, s, t, r, nContains, args>>

\* Inside its range loop the caller is followed through one forbidden write
\* to the map being iterated; what the producer does from then on is open.
MayMutate(i) ==
    \/ pc \in {"idle", "held"}
    \/ /\ pc = "ranging"
       /\ chans[1].obj = i
       /\ ~chans[1].raced /\ ~chans[1].closed

OperandInsert(i, e) ==
    /\ MayMutate(i)
    /\ CallInsert(Obj(i), e)
    /\ UNCHANGED lastIns

OperandRemove(i, e) ==
    /\ MayMutate(i)
    /\ CallRemove(Obj(i), e)
    /\ UNCHANGED lastIns

ResultInsert(e) ==
    /\ pc = "held"
    /\ r # NoVal
    /\ CallInsert(r, e)
    /\ lastIns' = <<e>>

ResultRemove(e) ==
    /\ pc = "held"
    /\ r # NoVal
    /\ CallRemove(r, e)
    /\ lastIns' = <<>>

\* The caller's own "c := x.Values()" ...
CallerValues(i) ==
    /\ pc = "idle"
    /\ pc' = "ranging"
    /\ op' = "Values"
    /\ args' = <<Obj(i), NoVal>>
    /\ chans' = <<Values(heap, Obj(i))>>
    /\ UNCHANGED <<typ, heap, s, t, r, nContains, lastIns, panicMsg>>

\* ... and its "for v := range c".
CallerRange ==
    /\ pc = "ranging"
    /\ \/ /\ chans[1].pend # <<>>
          /\ chans' = Took(chans, 1)
          /\ pc' = pc
       \/ /\ RangeDone(chans[1])
          /\ chans' = chans
          /\ pc' = "returned"
    /\ UNCHANGED <<typ, heap, op, s, t, r, nContains, args, lastIns, panicMsg>>

----------------------------------------------------------------------------

Init ==
    /\ typ \in [1..2 -> SetTypes]
    /\ heap = [ref \in Refs |-> EmptyCell]
    /\ pc = "idle"
    /\ op = ""
    /\ s = NoVal
    /\ t = NoVal
    /\ r = NoVal
    /\ chans = <<>>
    /\ nContains = 0
    /\ args = <<NoVal, NoVal>>
    /\ lastIns = <<>>
    /\ panicMsg = ""

Producer == \E i \in 1..2 : ValuesSend(i) \/ ValuesClose(i) \/ ValuesFatal(i)

Function ==
    \/ UnionValuesS \/ UnionRangeS \/ UnionValuesT \/ UnionRangeT
    \/ IntersectionValuesS \/ IntersectionRangeS
    \/ DifferenceValuesS \/ DifferenceRangeS
    \/ SymmetricDifferenceValuesS \/ SymmetricDifferenceRangeS
    \/ SymmetricDifferenceValuesT \/ SymmetricDifferenceRangeT

Caller ==
    \/ \E i, j \in 1..2 :
          \/ Union(i, j)
          \/ Intersection(i, j)
          \/ Difference(i, j)
          \/ SymmetricDifference(i, j)
    \/ \E x, y \in Operands \cup {ZeroOf(T) : T \in UserTypes}, c \in 0..MaxCap :
          NewSetCall(x, y, c)
    \/ Resume
    \/ Discard
    \/ \E i \in 1..2, e \in Elems : OperandInsert(i, e) \/ OperandRemove(i, e)
    \/ \E e \in Elems : ResultInsert(e) \/ ResultRemove(e)
    \/ \E i \in 1..2 : CallerValues(i)
    \/ CallerRange

Next == Producer \/ Function \/ Caller

Spec == Init /\ [][Next]_vars

\* The Go scheduler runs every runnable goroutine: a producer that can send
\* or close does so, and a range loop that can receive or end does so.
FairSpec ==
    /\ Spec
    /\ WF_vars(Producer)
    /\ WF_vars(Function)
    /\ WF_vars(CallerRange)

----------------------------------------------------------------------------
(* Properties *)

AlgebraOps == {"Union", "Intersection", "Difference", "SymmetricDifference"}

\* The elements e for which x.Contains(e) returns true.
Members(h, x) == {e \in Elems : AssertOK(x, e) /\ Contains(h, x, e)}

Returned(name) == pc = "returned" /\ op = name

Min(a, b) == IF a < b THEN a ELSE b

\* The channel is closed and no send on it is pending: its producer has ended.
Drained(c) == c.closed /\ c.pend = <<>>

\* A step of one of the four functions: its entry or a later statement.
AlgebraStep ==
    \/ Function
    \/ \E i, j \in 1..2 :
          Union(i, j) \/ Intersection(i, j) \/ Difference(i, j)
             \/ SymmetricDifference(i, j)

\* x.Len() and x.Contains(e), for every e, are the same before and after
\* the step.
Untouched(x) ==
    /\ SetLen(heap', x) = SetLen(heap, x)
    /\ Members(heap', x) = Members(heap, x)

\* C1: when Union(s, t) returns r, r contains exactly the elements that s
\* or t contains, and r.Len() is the number of distinct elements of the two.
C1_Union ==
    Returned("Union") =>
        /\ Members(heap, r) = Members(heap, args[1]) \cup Members(heap, args[2])
        /\ SetLen(heap, r) =
              Cardinality(Members(heap, args[1]) \cup Members(heap, args[2]))

\* Union of two different sets, each holding an element the other lacks.
C1_Witness ==
    /\ Returned("Union")
    /\ Members(heap, args[1]) \ Members(heap, args[2]) # {}
    /\ Members(heap, args[2]) \ Members(heap, args[1]) # {}

\* C2: when Intersection(s, t) returns r, r contains exactly the elements
\* that both s and t contain, whichever operand is the smaller.
C2_Intersection ==
    Returned("Intersection") =>
        Members(heap, r) = Members(heap, args[1]) \cap Members(heap, args[2])

\* Intersection with a smaller first operand (the operands are swapped), a
\* common element and an element only the larger operand has.
C2_Witness ==
    /\ Returned("Intersection")
    /\ SetLen(heap, args[1]) < SetLen(heap, args[2])
    /\ Members(heap, r) # {}
    /\ Members(heap, args[2]) \ Members(heap, args[1]) # {}

\* C3: when Difference(s, t) returns r, r contains exactly the elements
\* that s contains and t does not.
C3_Difference ==
    Returned("Difference") =>
        Members(heap, r) = Members(heap, args[1]) \ Members(heap, args[2])

\* Difference that keeps an element and drops one, with an element of t left over.
C3_Witness ==
    /\ Returned("Difference")
    /\ Members(heap, r) # {}
    /\ Members(heap, args[1]) \cap Members(heap, args[2]) # {}

\* C4: when SymmetricDifference(s, t) returns r, r contains exactly the
\* elements that are in exactly one of s and t, that is the union of the
\* two differences s \ t and t \ s.
C4_SymmetricDifference ==
    Returned("SymmetricDifference") =>
        Members(heap, r) =
            (Members(heap, args[1]) \ Members(heap, args[2]))
               \cup (Members(heap, args[2]) \ Members(heap, args[1]))

\* SymmetricDifference of two sets, each with an element the other lacks,
\* has returned both elements.
C4_Witness ==
    /\ Returned("SymmetricDifference")
    /\ Members(heap, args[1]) \ Members(heap, args[2]) # {}
    /\ Members(heap, args[2]) \ Members(heap, args[1]) # {}
    /\ Cardinality(Members(heap, r)) >= 2

\* C5: no step of the four functions, and no Insert or Remove of the caller
\* on the returned set, changes Len() or Contains(e) of either operand.
C5_OperandsUntouched ==
    [][(AlgebraStep \/ \E e \in Elems : ResultInsert(e) \/ ResultRemove(e))
          => Untouched(Obj(1)) /\ Untouched(Obj(2))]_vars

\* The caller has inserted into a returned set an element that its own
\* non-empty set 1 does not hold.
C5_Witness ==
    /\ pc = "held"
    /\ r.type \in SetTypes
    /\ lastIns # <<>>
    /\ AssertOK(r, lastIns[1])
    /\ Members(heap, r) # {}
    /\ ~Contains(heap, Obj(1), lastIns[1])
    /\ Members(heap, Obj(1)) # {}

\* C6: a call of one of the four functions with operands of differing
\* concrete types panics with the type-mismatch message in its first
\* statement: no channel has been opened, no set is returned, nothing was
\* allocated or inserted and both operands are as before.
C6_Mismatch ==
    /\ []((op \in AlgebraOps /\ args[1].type # args[2].type) =>
            /\ pc = "panicked"
            /\ panicMsg = "Set types do not match"
            /\ chans = <<>>
            /\ r = NoVal
            /\ heap[Fresh] = EmptyCell)
    /\ [][(AlgebraStep /\ args'[1].type # args'[2].type) => heap' = heap]_vars

\* Union of a non-empty StringSet and a non-empty IntSet has panicked.
C6_Witness ==
    /\ pc = "panicked"
    /\ op = "Union"
    /\ args[1].type = "StringSet" /\ args[2].type = "IntSet"
    /\ Members(heap, args[1]) # {}
    /\ Members(heap, args[2]) # {}

\* The values received from a channel, as a set.
Received(c) == {c.recvd[k] : k \in 1..Len(c.recvd)}

\* C7: on a channel returned by Values() whose map is not written while the
\* channel is open, every value received is an element the set held at call
\* time, no element is received twice, and the channel is closed only after
\* all of them were sent; the consumer, which keeps receiving, reaches the
\* close (the producer goroutine has then ended).
C7_Values ==
    /\ [](\A i \in DOMAIN chans :
            ~chans[i].raced =>
               /\ Received(chans[i]) \subseteq chans[i].snap
               /\ Cardinality(Received(chans[i])) = Len(chans[i].recvd)
               /\ chans[i].closed =>
                     Received(chans[i]) \cup {chans[i].pend[k] : k \in DOMAIN chans[i].pend}
                        = chans[i].snap)
    /\ \A i \in 1..2 :
          (i \in DOMAIN chans /\ ~chans[i].closed)
             ~> \/ pc = "panicked"
                \/ i \in DOMAIN chans /\ chans[i].raced
                \/ i \in DOMAIN chans /\ Drained(chans[i])

\* The caller's own range loop has received all elements of a set of at
\* least two elements and seen the close.
C7_Witness ==
    /\ Returned("Values")
    /\ ~chans[1].raced
    /\ Drained(chans[1])
    /\ Len(chans[1].recvd) >= 2
    /\ Received(chans[1]) = Members(heap, args[1])

C9_IteratesSmaller ==
    Returned("Intersection") =>
        /\ Cardinality(heap[chans[1].obj].keys) =
              Min(SetLen(heap, args[1]), SetLen(heap, args[2]))
        /\ nContains = Min(SetLen(heap, args[1]), SetLen(heap, args[2]))

\* A position inside one of the four functions.
InFunction == pc \notin {"idle", "ranging", "returned", "held", "panicked"}

\* C10: when one of the four functions returns, every channel it opened is
\* closed and drained, so no producer is blocked on a send; and while the
\* function runs no write has hit a map a producer still ranges over: the
\* function inserts into r only, whose storage is not that of any channel.
C10_Drained ==
    /\ (pc = "returned" /\ op \in AlgebraOps) =>
          \A i \in DOMAIN chans : Drained(chans[i])
    /\ (InFunction \/ (pc = "returned" /\ op \in AlgebraOps)) =>
          \A i \in DOMAIN chans :
             /\ ~chans[i].raced
             /\ chans[i].obj # r.ref
             /\ chans[i].obj \in {args[1].ref, args[2].ref}

\* SymmetricDifference of a non-empty set with itself has returned after two
\* channels over the same map.
C10_Witness ==
    /\ Returned("SymmetricDifference")
    /\ args[1] = args[2]
    /\ Len(chans) = 2
    /\ chans[1].obj = chans[2].obj
    /\ Len(chans[2].recvd) >= 2

====
